---- MODULE Spec2Model ----
(***************************************************************************)
(* A model of two parts of the quantile-compression codec:                 *)
(*   - src/src/types/timestamps.rs: the TimestampNanos / TimestampMicros   *)
(*     number types (range check, byte form, unsigned form, seconds and    *)
(*     nanoseconds, SystemTime conversions);                               *)
(*   - src/q_compress/src/chunk_metadata.rs: the chunk metadata            *)
(*     serializer and parser (write_to, parse_from, the prefix table and   *)
(*     the back-patch of compressed_body_size).                            *)
(*                                                                         *)
(* The timestamps are 128-bit integers.  TLC's integers are 32 bits wide,  *)
(* so the model carries its own integers: a natural number is the         *)
(* little-endian sequence of its base-256 digits without leading zeros,    *)
(* an integer is a sign and a natural number.  Fixed-width Rust integers   *)
(* are these integers reduced modulo 2^w where the code wraps or casts.    *)
(***************************************************************************)
EXTENDS Integers, Sequences, FiniteSets, TLC

\* ------------------------------------------------------------------------
\* Natural numbers of any size: little-endian base-256 digits, no leading 0.
\* ------------------------------------------------------------------------

RECURSIVE NNorm(_)
NNorm(a) ==
  IF a = <<>> THEN <<>>
  ELSE IF a[Len(a)] = 0 THEN NNorm(SubSeq(a, 1, Len(a) - 1))
  ELSE a

RECURSIVE NOf(_)
NOf(i) == IF i = 0 THEN <<>> ELSE <<i % 256>> \o NOf(i \div 256)

RECURSIVE NVal(_)
NVal(a) == IF a = <<>> THEN 0 ELSE a[1] + 256 * NVal(Tail(a))

NDigit(a, i) == IF i <= Len(a) THEN a[i] ELSE 0

RECURSIVE NAddC(_, _, _)
NAddC(a, b, c) ==
  IF a = <<>> /\ b = <<>> THEN (IF c = 0 THEN <<>> ELSE <<c>>)
  ELSE LET s == NDigit(a, 1) + NDigit(b, 1) + c
       IN  <<s % 256>> \o NAddC(IF a = <<>> THEN <<>> ELSE Tail(a),
                                 IF b = <<>> THEN <<>> ELSE Tail(b),
                                 s \div 256)

NAdd(a, b) == NAddC(a, b, 0)

RECURSIVE NCmpFrom(_, _, _)
NCmpFrom(a, b, i) ==
  IF i = 0 THEN 0
  ELSE IF a[i] < b[i] THEN -1
  ELSE IF a[i] > b[i] THEN 1
  ELSE NCmpFrom(a, b, i - 1)

\* -1, 0 or 1 as a < b, a = b, a > b.
NCmp(a, b) ==
  IF Len(a) < Len(b) THEN -1
  ELSE IF Len(a) > Len(b) THEN 1
  ELSE NCmpFrom(a, b, Len(a))

RECURSIVE NSubB(_, _, _)
NSubB(a, b, br) ==
  IF a = <<>> THEN <<>>
  ELSE LET d == a[1] - NDigit(b, 1) - br
       IN  <<(d + 256) % 256>> \o NSubB(Tail(a),
                                         IF b = <<>> THEN <<>> ELSE Tail(b),
                                         IF d < 0 THEN 1 ELSE 0)

\* a - b for a >= b.
NSub(a, b) == NNorm(NSubB(a, b, 0))

RECURSIVE NMulD(_, _, _)
NMulD(a, m, c) ==
  IF a = <<>> THEN NOf(c)
  ELSE LET p == a[1] * m + c
       IN  <<p % 256>> \o NMulD(Tail(a), m, p \div 256)

RECURSIVE NMul(_, _)
NMul(a, b) ==
  IF b = <<>> \/ a = <<>> THEN <<>>
  ELSE NAdd(NNorm(NMulD(a, b[1], 0)), NNorm(<<0>> \o NMul(a, Tail(b))))

RECURSIVE NDigitOf(_, _, _)
\* The digit q < 2^(k+1) with q*d <= r < (q+1)*d, and the rest r - q*d.
NDigitOf(r, d, k) ==
  IF k < 0 THEN [q |-> 0, r |-> r]
  ELSE LET dk == NNorm(NMulD(d, 2 ^ k, 0))
       IN  IF NCmp(r, dk) >= 0
           THEN LET rest == NDigitOf(NSub(r, dk), d, k - 1)
                IN  [q |-> 2 ^ k + rest.q, r |-> rest.r]
           ELSE NDigitOf(r, d, k - 1)

RECURSIVE NDivMod(_, _)
\* Quotient and remainder of a by d > 0, by long division in base 256.
NDivMod(a, d) ==
  IF a = <<>> THEN [q |-> <<>>, r |-> <<>>]
  ELSE LET hi == NDivMod(Tail(a), d)
       IN  IF hi.r = <<>> /\ a[1] = 0
           THEN [q |-> NNorm(<<0>> \o hi.q), r |-> <<>>]
           ELSE LET dig == NDigitOf(NNorm(<<a[1]>> \o hi.r), d, 7)
                IN  [q |-> NNorm(<<dig.q>> \o hi.q), r |-> dig.r]

\* a mod 256^n.
NLow(a, n) == NNorm(SubSeq(a, 1, IF Len(a) < n THEN Len(a) ELSE n))

\* 256^n.
NPow256(n) == [i \in 1..n |-> 0] \o <<1>>

\* ------------------------------------------------------------------------
\* Integers of any size: sign and magnitude; zero is not negative.
\* ------------------------------------------------------------------------

IMk(neg, mag) == [neg |-> neg /\ mag # <<>>, mag |-> mag]

IOf(i) == IF i < 0 THEN IMk(TRUE, NOf(-i)) ELSE IMk(FALSE, NOf(i))

IVal(x) == IF x.neg THEN -NVal(x.mag) ELSE NVal(x.mag)

INeg(x) == IMk(~x.neg, x.mag)

IAdd(x, y) ==
  IF x.neg = y.neg THEN IMk(x.neg, NAdd(x.mag, y.mag))
  ELSE IF NCmp(x.mag, y.mag) >= 0 THEN IMk(x.neg, NSub(x.mag, y.mag))
  ELSE IMk(y.neg, NSub(y.mag, x.mag))

ISub(x, y) == IAdd(x, INeg(y))

IMul(x, y) == IMk(x.neg # y.neg, NMul(x.mag, y.mag))

ICmp(x, y) ==
  IF x.neg /\ ~y.neg THEN -1
  ELSE IF ~x.neg /\ y.neg THEN 1
  ELSE IF x.neg THEN NCmp(y.mag, x.mag)
  ELSE NCmp(x.mag, y.mag)

ILt(x, y) == ICmp(x, y) < 0
ILe(x, y) == ICmp(x, y) <= 0
IGt(x, y) == ICmp(x, y) > 0
IGe(x, y) == ICmp(x, y) >= 0

\* Euclidean division by d > 0: x = q*d + r with 0 <= r < d.
IDivEuclid(x, d) ==
  LET qr == NDivMod(x.mag, d.mag)
  IN  IF ~x.neg THEN IMk(FALSE, qr.q)
      ELSE IF qr.r = <<>> THEN IMk(TRUE, qr.q)
      ELSE IMk(TRUE, NAdd(qr.q, <<1>>))

IRemEuclid(x, d) == ISub(x, IMul(IDivEuclid(x, d), d))

\* x mod 2^(8*nbytes), in 0 .. 2^(8*nbytes) - 1: the cast to an unsigned
\* integer of nbytes bytes, and the result of its wrapping arithmetic.
WrapU(x, nbytes) ==
  LET low == NLow(x.mag, nbytes)
  IN  IF ~x.neg \/ low = <<>> THEN IMk(FALSE, low)
      ELSE IMk(FALSE, NSub(NPow256(nbytes), low))

\* 2^(8*nbytes - 1).
HalfRange(nbytes) == IMk(FALSE, [i \in 1..(nbytes - 1) |-> 0] \o <<128>>)

\* The cast to a signed integer of nbytes bytes (two's complement).
WrapS(x, nbytes) ==
  LET u == WrapU(x, nbytes)
  IN  IF IGe(u, HalfRange(nbytes)) THEN ISub(u, IMk(FALSE, NPow256(nbytes)))
      ELSE u

I64_MIN == INeg(HalfRange(8))
I64_MAX == ISub(HalfRange(8), IOf(1))
I128_MIN == INeg(HalfRange(16))
I128_MAX == ISub(HalfRange(16), IOf(1))

\* Big-endian bytes of an unsigned integer of n bytes (to_be_bytes).
to_be_bytes(u, n) == [i \in 1..n |-> NDigit(u.mag, n + 1 - i)]

RECURSIVE NFromBE(_)
NFromBE(bytes) ==
  IF bytes = <<>> THEN <<>>
  ELSE <<bytes[Len(bytes)]>> \o NFromBE(SubSeq(bytes, 1, Len(bytes) - 1))

\* The unsigned integer of big-endian bytes (from_be_bytes).
from_be_bytes(bytes) == IMk(FALSE, NNorm(NFromBE(bytes)))

\* Whether an exact result does not fit a signed integer of nbytes bytes:
\* the arithmetic panics in a build with overflow checks and wraps without.
OverflowsS(x, nbytes) ==
  ILt(x, INeg(HalfRange(nbytes))) \/ IGe(x, HalfRange(nbytes))

Ok(v) == [kind |-> "ok", v |-> v]
Err(e) == [kind |-> "err", v |-> [error |-> e]]
Panic == [kind |-> "panic", v |-> [error |-> "overflow"]]

\* ------------------------------------------------------------------------
\* src/src/types/timestamps.rs.  A timestamp is its i128 count of parts;
\* parts_per_sec is the macro's $parts_per_sec, which tells the two types
\* apart (10^9: TimestampNanos, 10^6: TimestampMicros).
\* ------------------------------------------------------------------------

BILLION_U32 == 1000000000
NanosPartsPerSec == 1000000000
MicrosPartsPerSec == 1000000

MAX(parts_per_sec) ==
  ISub(IMul(IOf(parts_per_sec), IAdd(I64_MAX, IOf(1))), IOf(1))

MIN(parts_per_sec) == IMul(IOf(parts_per_sec), I64_MIN)

NS_PER_PART(parts_per_sec) == 1000000000 \div parts_per_sec

\* The constructor without its check against MIN.
new_upper_only(parts_per_sec, parts) ==
  IF IGt(parts, MAX(parts_per_sec))
  THEN Err("InvalidArgument")
  ELSE Ok(parts)

new(parts_per_sec, parts) ==
  IF IGt(parts, MAX(parts_per_sec)) \/ ILt(parts, MIN(parts_per_sec))
  THEN Err("InvalidArgument")
  ELSE Ok(parts)

\* seconds is an i64, subsec_nanos a u32; the sum is formed in i128, which
\* it cannot overflow.
from_secs_and_nanos(parts_per_sec, seconds, subsec_nanos) ==
  IAdd(IMul(seconds, IOf(parts_per_sec)),
       IDivEuclid(subsec_nanos, IOf(NS_PER_PART(parts_per_sec))))

\* The conversion with the division that truncates towards zero (/ and %)
\* in place of div_euclid and rem_euclid.
to_secs_and_nanos_truncating(parts_per_sec, self) ==
  LET quot == IMk(self.neg, NDivMod(self.mag, NOf(parts_per_sec)).q)
      rest == ISub(self, IMul(quot, IOf(parts_per_sec)))
  IN  [seconds |-> WrapS(quot, 8),
       subsec_nanos |->
         WrapU(IMul(WrapU(rest, 4), IOf(NS_PER_PART(parts_per_sec))), 4)]

to_secs_and_nanos(parts_per_sec, self) ==
  [seconds |-> WrapS(IDivEuclid(self, IOf(parts_per_sec)), 8),
   subsec_nanos |->
     WrapU(IMul(WrapU(IRemEuclid(self, IOf(parts_per_sec)), 4),
                IOf(NS_PER_PART(parts_per_sec))), 4)]

to_total_parts(self) == self

\* The conversion as a plain cast, without the shift by i128::MIN.
to_unsigned_cast(self) == WrapU(self, 16)

to_unsigned(self) == WrapU(WrapS(ISub(self, I128_MIN), 16), 16)

from_unsigned(off) == WrapS(IAdd(I128_MIN, WrapS(off, 16)), 16)

num_eq(self, other) == ICmp(self, other) = 0

\* Ordering::Less, Equal, Greater as -1, 0, 1.
num_cmp(self, other) == ICmp(self, other)

\* The bytes cut at the wrong end: the first 12 of the 16.
to_bytes_leading(parts_per_sec, self) ==
  LET diff == WrapS(ISub(self, MIN(parts_per_sec)), 16)
      be   == to_be_bytes(WrapU(diff, 16), 16)
  IN  SubSeq(be, 1, 12)

\* self.0 - Self::MIN is an i128 subtraction: see ToBytes for the builds.
to_bytes(parts_per_sec, self) ==
  LET diff == WrapS(ISub(self, MIN(parts_per_sec)), 16)
      be   == to_be_bytes(WrapU(diff, 16), 16)
  IN  SubSeq(be, 5, 16)

\* try_into().unwrap() panics unless the bytes given are 12.
from_bytes(parts_per_sec, bytes) ==
  LET full_bytes == <<0, 0, 0, 0>> \o bytes
  IN  IF Len(full_bytes) # 16 THEN [kind |-> "panic", v |-> [error |-> "unwrap"]]
      ELSE new(parts_per_sec,
               WrapS(IAdd(WrapS(from_be_bytes(full_bytes), 16),
                          MIN(parts_per_sec)), 16))

\* std::time as the conversions use it.  A SystemTime is whole seconds since
\* the Unix epoch (an i64, negative before it) and nanoseconds in
\* 0 .. 10^9 - 1 counted forwards; a Duration is seconds (u64) and
\* nanoseconds.

\* system_time.duration_since(UNIX_EPOCH): Ok(t - epoch), or Err(epoch - t)
\* when t is before the epoch.
duration_since_epoch(system_time) ==
  IF ~system_time.secs.neg
  THEN [ok |-> TRUE, dur |-> system_time]
  ELSE IF system_time.nanos = IOf(0)
  THEN [ok |-> FALSE,
        dur |-> [secs |-> INeg(system_time.secs), nanos |-> IOf(0)]]
  ELSE [ok |-> FALSE,
        dur |-> [secs |-> ISub(INeg(system_time.secs), IOf(1)),
                 nanos |-> ISub(IOf(BILLION_U32), system_time.nanos)]]

\* UNIX_EPOCH + dur.
epoch_plus(dur) == [secs |-> dur.secs, nanos |-> dur.nanos]

\* UNIX_EPOCH - dur.
epoch_minus(dur) ==
  IF dur.nanos = IOf(0)
  THEN [secs |-> INeg(dur.secs), nanos |-> IOf(0)]
  ELSE [secs |-> ISub(INeg(dur.secs), IOf(1)),
        nanos |-> ISub(IOf(BILLION_U32), dur.nanos)]

\* impl From<SystemTime> for the timestamp.  checks is the build:
\* the negation of an i64 panics with overflow checks and wraps without.
from_system_time(parts_per_sec, system_time, checks) ==
  LET d == duration_since_epoch(system_time)
  IN  IF d.ok
      THEN Ok(from_secs_and_nanos(parts_per_sec, WrapS(d.dur.secs, 8),
                                  d.dur.nanos))
      ELSE LET complement_nanos == d.dur.nanos
               as_i64 == WrapS(d.dur.secs, 8)
               ceil_secs == WrapS(INeg(as_i64), 8)
           IN  IF checks /\ OverflowsS(INeg(as_i64), 8) THEN Panic
               ELSE IF complement_nanos = IOf(0)
               THEN Ok(from_secs_and_nanos(parts_per_sec, ceil_secs, IOf(0)))
               ELSE Ok(from_secs_and_nanos(parts_per_sec,
                         WrapS(ISub(ceil_secs, IOf(1)), 8),
                         ISub(IOf(BILLION_U32), complement_nanos)))

\* impl From<the timestamp> for SystemTime.
into_system_time(parts_per_sec, value, checks) ==
  LET sn == to_secs_and_nanos(parts_per_sec, value)
      seconds == sn.seconds
      subsec_nanos == sn.subsec_nanos
      negated == WrapS(INeg(seconds), 8)
  IN  IF ~seconds.neg
      THEN Ok(epoch_plus([secs |-> WrapU(seconds, 8), nanos |-> subsec_nanos]))
      ELSE IF checks /\ OverflowsS(INeg(seconds), 8) THEN Panic
      ELSE IF subsec_nanos = IOf(0)
      THEN Ok(epoch_minus([secs |-> WrapU(negated, 8), nanos |-> IOf(0)]))
      ELSE Ok(epoch_minus(
             [secs |-> WrapU(WrapS(ISub(negated, IOf(1)), 8), 8),
              nanos |-> ISub(IOf(BILLION_U32), subsec_nanos)]))

\* ------------------------------------------------------------------------
\* The collaborators of chunk_metadata.rs, which are not among the sources:
\* the bit writer and reader, the constants, the flags, the number types,
\* the GCD utilities and the delta moments.  They follow sections 3, 4 and 6
\* of the specification.
\* ------------------------------------------------------------------------

BITS_TO_ENCODE_N_ENTRIES == 24
BITS_TO_ENCODE_COMPRESSED_BODY_SIZE == 32
BITS_TO_ENCODE_N_PREFIXES == 4
BITS_TO_ENCODE_JUMPSTART == 5

None == [some |-> FALSE, val |-> 0]
Some(x) == [some |-> TRUE, val |-> x]

\* Bit k (from the least significant) of a value below 2^31.
BitOf(value, k) == IF k >= 31 THEN 0 ELSE (value \div (2 ^ k)) % 2

\* The nbits bits of value, most significant first.
usize_bits(value, nbits) == [i \in 1..nbits |-> BitOf(value, nbits - i)]

RECURSIVE bits_usize(_)
\* The value of bits, most significant first.
bits_usize(bits) ==
  IF bits = <<>> THEN 0
  ELSE 2 * bits_usize(SubSeq(bits, 1, Len(bits) - 1)) + bits[Len(bits)]

RECURSIVE BitLen(_)
\* ceil(log2(x + 1)): the bits needed for the values 0 .. x.
BitLen(x) == IF x = 0 THEN 0 ELSE 1 + BitLen(x \div 2)

\* BitWriter: the bits written so far; the cursor is their count.  failed
\* records a violated assertion (a value wider than its field): the caller
\* panics there, so nothing that follows in it writes any more.
BitWriter(bits) == [bits |-> bits, failed |-> FALSE]

bit_position(writer) == Len(writer.bits)

write(writer, bits) ==
  IF writer.failed THEN writer ELSE [writer EXCEPT !.bits = @ \o bits]

write_one(writer, b) == write(writer, <<IF b THEN 1 ELSE 0>>)

write_usize(writer, value, nbits) ==
  IF writer.failed THEN writer
  ELSE IF nbits < 31 /\ value >= 2 ^ nbits
  THEN [writer EXCEPT !.failed = TRUE]
  ELSE write(writer, usize_bits(value, nbits))

finish_byte(writer) ==
  write(writer, [i \in 1..((8 - (Len(writer.bits) % 8)) % 8) |-> 0])

overwrite_usize(writer, idx, value, nbits) ==
  IF writer.failed THEN writer
  ELSE IF nbits < 31 /\ value >= 2 ^ nbits
  THEN [writer EXCEPT !.failed = TRUE]
  ELSE [writer EXCEPT !.bits =
          [i \in 1..Len(@) |->
             IF i > idx /\ i <= idx + nbits
             THEN usize_bits(value, nbits)[i - idx]
             ELSE @[i]]]

\* BitReader: the buffer and the count of bits consumed.
BitReader(bits, pos) == [bits |-> bits, pos |-> pos]

Fail(kind, reader) == [ok |-> FALSE, err |-> kind, r |-> reader]
Done(val, reader) == [ok |-> TRUE, val |-> val, r |-> reader]

\* The operator ? on a result: an error is returned as it is, and what
\* follows goes on from a success.
Try(result, Continue(_)) == IF result.ok THEN Continue(result) ELSE result

read(reader, nbits) ==
  IF reader.pos + nbits > Len(reader.bits)
  THEN Fail("InsufficientData", reader)
  ELSE Done(SubSeq(reader.bits, reader.pos + 1, reader.pos + nbits),
            [reader EXCEPT !.pos = @ + nbits])

read_usize(reader, nbits) ==
  Try(read(reader, nbits), LAMBDA b : Done(bits_usize(b.val), b.r))

read_one(reader) ==
  Try(read(reader, 1), LAMBDA b : Done(b.val[1] = 1, b.r))

\* Flags: delta_encoding_order, use_gcds and the width of a code length.
Flags_bits_to_encode_code_len(f) == f.code_len_bits

Flags_bits_to_encode_count(f, n) == BitLen(n)

\* The number types: T is u16, its Signed i16.  Both are 16 bits on the
\* wire and share the unsigned companion u16.
PHYSICAL_BITS == 16
UNSIGNED_MAX == 65535
SignedOf(T) == "i16"

\* to_unsigned: the identity for an unsigned integer, the wrapping
\* subtraction of the minimum for a signed one.
num_to_unsigned(T, x) == IF T = "u16" THEN x ELSE (x + 32768) % 65536

num_from_unsigned(T, u) == IF T = "u16" THEN u ELSE u - 32768

\* T::read_from and T::write_to: the raw bits, two's complement for i16.
num_read_from(T, reader) ==
  Try(read_usize(reader, PHYSICAL_BITS),
      LAMBDA raw : IF T = "i16" /\ raw.val >= 32768
                   THEN Done(raw.val - 65536, raw.r)
                   ELSE raw)

num_write_to(T, x, writer) ==
  write_usize(writer, (x + 65536) % 65536, PHYSICAL_BITS)

\* gcd_utils.  A GCD is stored as one bit, set when it is not 1, then
\* gcd - 1 in the bits that the range needs.
write_gcd(range, gcd, writer) ==
  LET w == write_one(writer, gcd # 1)
  IN  IF gcd # 1 THEN write_usize(w, gcd - 1, BitLen(range)) ELSE w

read_gcd(range, reader) ==
  Try(read_one(reader),
      LAMBDA nontrivial :
        IF ~nontrivial.val THEN Done(1, nontrivial.r)
        ELSE Try(read_usize(nontrivial.r, BitLen(range)),
                 LAMBDA gcd_minus_one :
                   IF gcd_minus_one.val >= range
                   THEN Fail("Corruption: stored GCD exceeds the range",
                             gcd_minus_one.r)
                   ELSE Done(gcd_minus_one.val + 1, gcd_minus_one.r)))

\* The GCD of the rows whose range is more than one value, when they all
\* have the same; a row with upper = lower contributes no constraint.
common_gcd_for_chunk_meta(prefixes) ==
  LET nontrivial == {i \in 1..Len(prefixes) :
                       prefixes[i].upper # prefixes[i].lower}
      gcds == {prefixes[i].gcd : i \in nontrivial}
  IN  IF gcds = {} THEN Some(1)
      ELSE IF Cardinality(gcds) = 1 THEN Some(CHOOSE g \in gcds : TRUE)
      ELSE None

\* DeltaMoments: delta_encoding_order values of T::Signed, PHYSICAL_BITS
\* raw bits each.
RECURSIVE delta_moments_write_to(_, _)
delta_moments_write_to(moments, writer) ==
  IF moments = <<>> THEN writer
  ELSE delta_moments_write_to(Tail(moments),
                              num_write_to("i16", Head(moments), writer))

RECURSIVE delta_moments_parse_from(_, _, _)
delta_moments_parse_from(reader, order, moments) ==
  IF order = 0 THEN Done(moments, reader)
  ELSE Try(num_read_from("i16", reader),
           LAMBDA m : delta_moments_parse_from(m.r, order - 1,
                                               Append(moments, m.val)))

\* ------------------------------------------------------------------------
\* src/q_compress/src/chunk_metadata.rs.  A Prefix is a record of count,
\* code, lower, upper, run_len_jumpstart and gcd; a ChunkMetadata is a
\* record of n, compressed_body_size and prefix_metadata, which is Simple
\* (prefixes over T) or Delta (prefixes over T::Signed, and delta_moments).
\* ------------------------------------------------------------------------

Prefix(count, code, lower, upper, run_len_jumpstart, gcd) ==
  [count |-> count, code |-> code, lower |-> lower, upper |-> upper,
   run_len_jumpstart |-> run_len_jumpstart, gcd |-> gcd]

Simple(prefixes) ==
  [kind |-> "Simple", prefixes |-> prefixes, delta_moments |-> <<>>]

Delta(prefixes, delta_moments) ==
  [kind |-> "Delta", prefixes |-> prefixes, delta_moments |-> delta_moments]

ChunkMetadata(n, compressed_body_size, prefix_metadata) ==
  [n |-> n, compressed_body_size |-> compressed_body_size,
   prefix_metadata |-> prefix_metadata]

Corruption(msg, reader) ==
  [ok |-> FALSE, err |-> "Corruption", msg |-> msg, r |-> reader]

\* parse_prefixes, the chunk-wide GCD: Some(1) without use_gcds, the
\* declared common GCD, or None when each row carries its own.
parse_common_gcd(reader, flags) ==
  IF flags.use_gcds
  THEN Try(read_one(reader),
           LAMBDA has_common :
             IF has_common.val
             THEN Try(read_gcd(UNSIGNED_MAX, has_common.r),
                      LAMBDA g : Done(Some(g.val), g.r))
             ELSE Done(None, has_common.r))
  ELSE Done(Some(1), reader)

\* parse_prefixes, the start of a row: count, lower, upper and their check.
parse_prefix_bounds_unchecked(T, reader, bits_to_encode_count) ==
  Try(read_usize(reader, bits_to_encode_count), LAMBDA count :
  Try(num_read_from(T, count.r), LAMBDA lower :
  Try(num_read_from(T, lower.r), LAMBDA upper :
    Done([count |-> count.val, lower |-> lower.val, upper |-> upper.val],
         upper.r))))

parse_prefix_bounds(T, reader, bits_to_encode_count) ==
  Try(read_usize(reader, bits_to_encode_count), LAMBDA count :
  Try(num_read_from(T, count.r), LAMBDA lower :
  Try(num_read_from(T, lower.r), LAMBDA upper :
    IF num_to_unsigned(T, lower.val) > num_to_unsigned(T, upper.val)
    THEN Corruption(<<"prefix lower bound", lower.val,
                      "may not be greater than upper bound", upper.val>>,
                    upper.r)
    ELSE Done([count |-> count.val, lower |-> lower.val,
               upper |-> upper.val], upper.r))))

\* parse_prefixes, the run length jumpstart of a row.
parse_run_len_jumpstart(reader) ==
  Try(read_one(reader),
      LAMBDA has :
        IF has.val
        THEN Try(read_usize(has.r, BITS_TO_ENCODE_JUMPSTART),
                 LAMBDA j : Done(Some(j.val), j.r))
        ELSE Done(None, has.r))

\* parse_prefixes, one turn of its loop: a row, or the first error.
parse_prefix(T, reader, bits_to_encode_count, bits_to_encode_code_len, maybe_common_gcd) ==
  Try(parse_prefix_bounds(T, reader, bits_to_encode_count), LAMBDA b :
  Try(read_usize(b.r, bits_to_encode_code_len), LAMBDA code_len :
  Try(read(code_len.r, code_len.val), LAMBDA code :
  Try(parse_run_len_jumpstart(code.r), LAMBDA run_len_jumpstart :
  Try(IF maybe_common_gcd.some
      THEN Done(maybe_common_gcd.val, run_len_jumpstart.r)
      ELSE read_gcd(num_to_unsigned(T, b.val.upper)
                      - num_to_unsigned(T, b.val.lower),
                    run_len_jumpstart.r),
      LAMBDA gcd :
        Done(Prefix(b.val.count, code.val, b.val.lower, b.val.upper,
                    run_len_jumpstart.val, gcd.val), gcd.r))))))

RECURSIVE parse_prefix_loop(_, _, _, _, _, _, _)
parse_prefix_loop(T, reader, bits_to_encode_count, bits_to_encode_code_len, maybe_common_gcd, n_pref, prefixes) ==
  IF n_pref = 0 THEN Done(prefixes, reader)
  ELSE Try(parse_prefix(T, reader, bits_to_encode_count,
                        bits_to_encode_code_len, maybe_common_gcd),
           LAMBDA p :
             parse_prefix_loop(T, p.r, bits_to_encode_count,
                               bits_to_encode_code_len, maybe_common_gcd,
                               n_pref - 1, Append(prefixes, p.val)))

parse_prefixes(T, reader, flags, n) ==
  Try(read_usize(reader, BITS_TO_ENCODE_N_PREFIXES), LAMBDA n_pref :
  Try(parse_common_gcd(n_pref.r, flags), LAMBDA maybe_common_gcd :
    parse_prefix_loop(T, maybe_common_gcd.r,
                      Flags_bits_to_encode_count(flags, n),
                      Flags_bits_to_encode_code_len(flags),
                      maybe_common_gcd.val, n_pref.val, <<>>)))

\* write_prefixes, the chunk-wide GCD block; the writer and the GCD that
\* the rows then share, if any.
write_common_gcd_flag_only(prefixes, writer, flags) ==
  IF flags.use_gcds
  THEN LET maybe_common_gcd == common_gcd_for_chunk_meta(prefixes)
       IN  [w |-> write_one(writer, maybe_common_gcd.some),
            gcd |-> maybe_common_gcd]
  ELSE [w |-> writer, gcd |-> Some(1)]

write_common_gcd(prefixes, writer, flags) ==
  IF flags.use_gcds
  THEN LET maybe_common_gcd == common_gcd_for_chunk_meta(prefixes)
           w == write_one(writer, maybe_common_gcd.some)
       IN  [w |-> IF maybe_common_gcd.some
                  THEN write_gcd(UNSIGNED_MAX, maybe_common_gcd.val, w)
                  ELSE w,
            gcd |-> maybe_common_gcd]
  ELSE [w |-> writer, gcd |-> Some(1)]

\* write_prefixes, one turn of its loop.
write_prefix(T, pref, writer, bits_to_encode_count, bits_to_encode_prefix_len, maybe_common_gcd) ==
  LET w1 == write_usize(writer, pref.count, bits_to_encode_count)
      w2 == num_write_to(T, pref.lower, w1)
      w3 == num_write_to(T, pref.upper, w2)
      w4 == write_usize(w3, Len(pref.code), bits_to_encode_prefix_len)
      w5 == write(w4, pref.code)
      w6 == IF pref.run_len_jumpstart.some
            THEN write_usize(write_one(w5, TRUE), pref.run_len_jumpstart.val,
                             BITS_TO_ENCODE_JUMPSTART)
            ELSE write_one(w5, FALSE)
  IN  IF maybe_common_gcd.some THEN w6
      ELSE write_gcd(num_to_unsigned(T, pref.upper)
                       - num_to_unsigned(T, pref.lower),
                     pref.gcd, w6)

RECURSIVE write_prefix_loop(_, _, _, _, _, _)
write_prefix_loop(T, prefixes, writer, bits_to_encode_count, bits_to_encode_prefix_len, maybe_common_gcd) ==
  IF prefixes = <<>> THEN writer
  ELSE write_prefix_loop(T, Tail(prefixes),
                         write_prefix(T, Head(prefixes), writer,
                                      bits_to_encode_count,
                                      bits_to_encode_prefix_len,
                                      maybe_common_gcd),
                         bits_to_encode_count, bits_to_encode_prefix_len,
                         maybe_common_gcd)

write_prefixes(T, prefixes, writer, flags, n) ==
  LET w == write_usize(writer, Len(prefixes), BITS_TO_ENCODE_N_PREFIXES)
      common == write_common_gcd(prefixes, w, flags)
  IN  write_prefix_loop(T, prefixes, common.w,
                        Flags_bits_to_encode_count(flags, n),
                        Flags_bits_to_encode_code_len(flags), common.gcd)

\* ChunkMetadata::parse_from, for T = u16.
parse_from(reader, flags) ==
  Try(read_usize(reader, BITS_TO_ENCODE_N_ENTRIES), LAMBDA n :
  Try(read_usize(n.r, BITS_TO_ENCODE_COMPRESSED_BODY_SIZE),
      LAMBDA compressed_body_size :
    IF flags.delta_encoding_order = 0
    THEN Try(parse_prefixes("u16", compressed_body_size.r, flags, n.val),
             LAMBDA prefixes :
               Done(ChunkMetadata(n.val, compressed_body_size.val,
                                  Simple(prefixes.val)), prefixes.r))
    ELSE Try(delta_moments_parse_from(compressed_body_size.r,
                                      flags.delta_encoding_order, <<>>),
             LAMBDA delta_moments :
         Try(parse_prefixes(SignedOf("u16"), delta_moments.r, flags, n.val),
             LAMBDA prefixes :
               Done(ChunkMetadata(n.val, compressed_body_size.val,
                                  Delta(prefixes.val, delta_moments.val)),
                    prefixes.r)))))

\* ChunkMetadata::write_to before its finish_byte.
write_fields(self, writer, flags) ==
  LET w1 == write_usize(writer, self.n, BITS_TO_ENCODE_N_ENTRIES)
      w2 == write_usize(w1, self.compressed_body_size,
                        BITS_TO_ENCODE_COMPRESSED_BODY_SIZE)
  IN  IF self.prefix_metadata.kind = "Simple"
      THEN write_prefixes("u16", self.prefix_metadata.prefixes, w2, flags,
                          self.n)
      ELSE write_prefixes(SignedOf("u16"), self.prefix_metadata.prefixes,
                          delta_moments_write_to(
                            self.prefix_metadata.delta_moments, w2),
                          flags, self.n)

write_to_unpadded(self, writer, flags) == write_fields(self, writer, flags)

\* ChunkMetadata::write_to.
write_to(self, writer, flags) == finish_byte(write_fields(self, writer, flags))

update_at_bit_idx(self, writer, bit_idx) ==
  overwrite_usize(writer, bit_idx, self.compressed_body_size,
                  BITS_TO_ENCODE_COMPRESSED_BODY_SIZE)

update_write_compressed_body_size(self, writer, bit_idx) ==
  overwrite_usize(writer, bit_idx + BITS_TO_ENCODE_N_ENTRIES,
                  self.compressed_body_size,
                  BITS_TO_ENCODE_COMPRESSED_BODY_SIZE)

\* ------------------------------------------------------------------------
\* State.
\* ------------------------------------------------------------------------

VARIABLES
  \* timestamps: the type under test (its parts per second), the input value,
  \* the value the operations applied so far have produced, their names, and
  \* the build (whether integer overflow panics or wraps)
  tpps, torig, tcur, ttrace, overflow_checks,
  \* chunk metadata: the metadata being encoded, the file's flags, the
  \* writer, the bit offset recorded before write_to, the step of the
  \* encode / decode sequence, the writer's buffer as it was before the
  \* back-patch, whether a stored bit was damaged, and parse_from's result
  meta, flags, writer, bit_idx, phase, before_patch, corrupted, parsed

ts_vars == <<tpps, torig, tcur, ttrace, overflow_checks>>
meta_vars == <<meta, flags, writer, bit_idx, phase, before_patch, corrupted,
               parsed>>
vars == <<tpps, torig, tcur, ttrace, overflow_checks, meta, flags,
          writer, bit_idx, phase, before_patch, corrupted, parsed>>

\* ------------------------------------------------------------------------
\* Timestamps: inputs and operations.
\* ------------------------------------------------------------------------

\* How far around each boundary value the inputs range.
TsSpread == 1
\* How many operations are applied in a row to one input.
MaxOps == 2

U32_MAX == ISub(IMk(FALSE, NPow256(4)), IOf(1))
U96_MAX == ISub(IMk(FALSE, NPow256(12)), IOf(1))
U128_MAX == ISub(IMk(FALSE, NPow256(16)), IOf(1))

Around(x) == {IAdd(x, IOf(d)) : d \in (-TsSpread)..TsSpread}

\* Counts of parts: the bounds of the type, the epoch, the instant of the
\* specification's scenario, a present-day instant, the bounds of i128.
PartsInputs(pps) ==
  { x \in Around(MIN(pps)) \cup Around(MAX(pps)) \cup Around(IOf(0))
          \cup Around(IOf(-500000000))
          \cup Around(IMul(IOf(1700000000), IOf(pps)))
          \cup Around(I128_MIN) \cup Around(I128_MAX) :
      ~OverflowsS(x, 16) }

BytesInputs(pps) ==
  { SubSeq(to_be_bytes(u, 16), 5, 16) :
      u \in { x \in Around(IOf(0)) \cup Around(ISub(MAX(pps), MIN(pps)))
                    \cup Around(U96_MAX) :
                ~x.neg /\ ILe(x, U96_MAX) } }

UnsignedInputs ==
  { x \in Around(IOf(0)) \cup Around(HalfRange(16)) \cup Around(U128_MAX) :
      ~x.neg /\ ILe(x, U128_MAX) }

SecondsInputs ==
  { x \in Around(I64_MIN) \cup Around(IOf(0)) \cup Around(I64_MAX)
          \cup Around(IOf(1700000000)) :
      ~OverflowsS(x, 8) }

SubsecInputs ==
  {IOf(0), IOf(1), IOf(999), IOf(1000), IOf(500000000), IOf(999999999)}

TsInputs(pps) ==
     {[kind |-> "parts", v |-> x] : x \in PartsInputs(pps)}
  \cup {[kind |-> "ts", v |-> x] : x \in PartsInputs(pps)}
  \cup {[kind |-> "bytes", v |-> [bytes |-> b]] : b \in BytesInputs(pps)}
  \cup {[kind |-> "unsigned", v |-> u] : u \in UnsignedInputs}
  \cup {[kind |-> "secs_nanos",
         v |-> [seconds |-> s, subsec_nanos |-> n]] :
          s \in SecondsInputs,
          n \in SubsecInputs \cup {IOf(BILLION_U32), U32_MAX}}
  \cup {[kind |-> "system_time", v |-> [secs |-> s, nanos |-> n]] :
          s \in SecondsInputs, n \in SubsecInputs}

\* The result before any parse.
NotParsed == Fail("not parsed", BitReader(<<>>, 0))

\* A timestamp machine starts from one input; the chunk is idle (no phase
\* of it is enabled).
TsInit ==
  /\ tpps \in {NanosPartsPerSec, MicrosPartsPerSec}
  /\ torig \in TsInputs(tpps)
  /\ tcur = torig
  /\ ttrace = <<>>
  /\ overflow_checks \in BOOLEAN
  /\ flags = [delta_encoding_order |-> 0, use_gcds |-> FALSE,
              code_len_bits |-> 4]
  /\ meta = ChunkMetadata(0, 0, Simple(<<>>))
  /\ writer = BitWriter(<<>>)
  /\ bit_idx = 0
  /\ phase = "idle"
  /\ before_patch = <<>>
  /\ corrupted = FALSE
  /\ parsed = NotParsed

\* The value of a result: a timestamp, an error, or a panic.
OfResult(r) == IF r.kind = "ok" THEN [kind |-> "ts", v |-> r.v] ELSE r

TsStep(op, value) ==
  /\ Len(ttrace) < MaxOps
  /\ tcur' = value
  /\ ttrace' = Append(ttrace, op)
  /\ UNCHANGED <<tpps, torig, overflow_checks>>
  /\ UNCHANGED meta_vars

New ==
  /\ tcur.kind = "parts"
  /\ TsStep("new", OfResult(new(tpps, tcur.v)))

\* self.0 - Self::MIN overflows i128 for a timestamp far above MAX: a panic
\* with overflow checks, the wrapped difference without.
ToBytes ==
  /\ tcur.kind = "ts"
  /\ TsStep("to_bytes",
            IF overflow_checks
               /\ OverflowsS(ISub(tcur.v, MIN(tpps)), 16)
            THEN Panic
            ELSE [kind |-> "bytes",
                  v |-> [bytes |-> to_bytes(tpps, tcur.v)]])

FromBytes ==
  /\ tcur.kind = "bytes"
  /\ TsStep("from_bytes", OfResult(from_bytes(tpps, tcur.v.bytes)))

ToUnsigned ==
  /\ tcur.kind = "ts"
  /\ TsStep("to_unsigned", [kind |-> "unsigned", v |-> to_unsigned(tcur.v)])

FromUnsigned ==
  /\ tcur.kind = "unsigned"
  /\ TsStep("from_unsigned", [kind |-> "ts", v |-> from_unsigned(tcur.v)])

\* Two timestamps compared as numbers (num_eq, num_cmp) and as unsigned.
Compare ==
  /\ tcur.kind = "ts"
  /\ \E other \in PartsInputs(tpps) :
       TsStep("compare",
              [kind |-> "compared",
               v |-> [self |-> tcur.v, other |-> other,
                      num_eq |-> num_eq(tcur.v, other),
                      num_cmp |-> num_cmp(tcur.v, other),
                      unsigned_self |-> to_unsigned(tcur.v),
                      unsigned_other |-> to_unsigned(other)]])

ToSecsAndNanos ==
  /\ tcur.kind = "ts"
  /\ TsStep("to_secs_and_nanos",
            [kind |-> "secs_nanos",
             v |-> to_secs_and_nanos(tpps, tcur.v)])

FromSecsAndNanos ==
  /\ tcur.kind = "secs_nanos"
  /\ TsStep("from_secs_and_nanos",
            [kind |-> "ts",
             v |-> from_secs_and_nanos(tpps, tcur.v.seconds,
                                       tcur.v.subsec_nanos)])

FromSystemTime ==
  /\ tcur.kind = "system_time"
  /\ TsStep("from_system_time",
            OfResult(from_system_time(tpps, tcur.v,
                                      overflow_checks)))

IntoSystemTime ==
  /\ tcur.kind = "ts"
  /\ LET r == into_system_time(tpps, tcur.v, overflow_checks)
     IN  TsStep("into_system_time",
                IF r.kind = "ok" THEN [kind |-> "system_time", v |-> r.v]
                ELSE r)

TsNext ==
  \/ New
  \/ ToBytes
  \/ FromBytes
  \/ ToUnsigned
  \/ FromUnsigned
  \/ Compare
  \/ ToSecsAndNanos
  \/ FromSecsAndNanos
  \/ FromSystemTime
  \/ IntoSystemTime

\* ------------------------------------------------------------------------
\* Chunk metadata: the chunks encoded and the steps of an encoder and a
\* decoder around the metadata section.
\* ------------------------------------------------------------------------

\* The most rows a prefix table holds.
MaxPrefixes == 3

\* Rows by their bounds in the unsigned domain: a range of 8 in steps of 4,
\* one value, a range of 6 in steps of 2 with a run length jumpstart, a
\* range of 16 in steps of 4 with no samples, and one value that holds a
\* GCD of 4 (every GCD divides its range of 0).
RowTemplates ==
  { [lo |-> 32760, hi |-> 32768, gcd |-> 4, code |-> <<0>>,
     jumpstart |-> None, full |-> TRUE],
    [lo |-> 32780, hi |-> 32780, gcd |-> 1, code |-> <<1, 0>>,
     jumpstart |-> None, full |-> TRUE],
    [lo |-> 32790, hi |-> 32796, gcd |-> 2, code |-> <<1, 1>>,
     jumpstart |-> Some(3), full |-> TRUE],
    [lo |-> 32800, hi |-> 32816, gcd |-> 4, code |-> <<1, 1, 0>>,
     jumpstart |-> None, full |-> FALSE],
    [lo |-> 32784, hi |-> 32784, gcd |-> 4, code |-> <<1, 1, 1>>,
     jumpstart |-> None, full |-> TRUE] }

RowOf(T, t, n) ==
  Prefix(IF t.full THEN n ELSE 0, t.code, num_from_unsigned(T, t.lo),
         num_from_unsigned(T, t.hi), t.jumpstart, t.gcd)

\* The tables: up to MaxPrefixes different rows, in any order.
Tables(T, n) ==
  UNION { { [i \in 1..k |-> RowOf(T, ts[i], n)] :
              ts \in { f \in [1..k -> RowTemplates] :
                         \A i, j \in 1..k : i # j => f[i] # f[j] } } :
          k \in 0..MaxPrefixes }

FlagsChoices ==
  [delta_encoding_order : {0, 1}, use_gcds : BOOLEAN, code_len_bits : {4}]

\* compressed_body_size as write_to finds it: the placeholder, or a size
\* known beforehand.
SizeChoices == {0, 123456}

\* The sizes a body turns out to have, and the bits of it the model keeps.
BodySizes == {1, 123456}
BodySample == <<1, 0, 1, 0, 0, 1, 0, 1>>

\* The bits the writer holds before the chunk: a file header, whole bytes.
HeaderBits == <<0, 1, 1, 1, 0, 0, 0, 1>>

Chunks(f) ==
  IF f.delta_encoding_order = 0
  THEN {ChunkMetadata(0, c, Simple(<<>>)) : c \in SizeChoices}
       \cup {ChunkMetadata(3, c, Simple(p)) :
               c \in SizeChoices, p \in Tables("u16", 3)}
  ELSE {ChunkMetadata(3, c, Delta(p, <<-1>>)) :
          c \in SizeChoices, p \in Tables("i16", 3)}

\* A chunk machine starts from a metadata to write; the timestamps are idle.
Init ==
  /\ flags \in FlagsChoices
  /\ meta \in Chunks(flags)
  /\ writer = BitWriter(HeaderBits)
  /\ bit_idx = 0
  /\ phase = "init"
  /\ before_patch = <<>>
  /\ corrupted = FALSE
  /\ parsed = NotParsed
  /\ tpps = NanosPartsPerSec
  /\ torig = [kind |-> "none", v |-> [none |-> 0]]
  /\ tcur = torig
  /\ ttrace = <<>>
  /\ overflow_checks = FALSE

\* The encoder records the cursor and writes the metadata.
WriteTo ==
  /\ phase = "init"
  /\ bit_idx' = bit_position(writer)
  /\ writer' = write_to(meta, writer, flags)
  /\ phase' = IF writer'.failed THEN "panicked" ELSE "written"
  /\ UNCHANGED <<meta, flags, before_patch, corrupted, parsed>>
  /\ UNCHANGED ts_vars

\* The body follows a metadata written with the placeholder, and its size
\* becomes known.
WriteBody ==
  /\ phase = "written"
  /\ ~corrupted
  /\ meta.compressed_body_size = 0
  /\ \E s \in BodySizes :
       meta' = [meta EXCEPT !.compressed_body_size = s]
  /\ writer' = write(writer, BodySample)
  /\ phase' = "body"
  /\ UNCHANGED <<flags, bit_idx, before_patch, corrupted, parsed>>
  /\ UNCHANGED ts_vars

UpdateWriteCompressedBodySize ==
  /\ phase = "body"
  /\ before_patch' = writer.bits
  /\ writer' = update_write_compressed_body_size(meta, writer, bit_idx)
  /\ phase' = "patched"
  /\ UNCHANGED <<meta, flags, bit_idx, corrupted, parsed>>
  /\ UNCHANGED ts_vars

\* One bit of a finished metadata section (its size is final) is damaged
\* before it is read.  (The top bit of compressed_body_size is left alone:
\* the model's integers end below 2^31.)
Corrupt ==
  /\ phase = "written"
  /\ ~corrupted
  /\ meta.compressed_body_size # 0
  /\ \E i \in (bit_idx + 1)..Len(writer.bits) :
       /\ i # bit_idx + BITS_TO_ENCODE_N_ENTRIES + 1
       /\ writer' = [writer EXCEPT !.bits[i] = 1 - @]
  /\ corrupted' = TRUE
  /\ UNCHANGED <<meta, flags, bit_idx, phase, before_patch, parsed>>
  /\ UNCHANGED ts_vars

\* The decoder parses the metadata from the offset where it was written.
ParseFrom ==
  /\ phase \in {"written", "patched"}
  /\ parsed' = parse_from(BitReader(writer.bits, bit_idx), flags)
  /\ phase' = "parsed"
  /\ UNCHANGED <<meta, flags, writer, bit_idx, before_patch, corrupted>>
  /\ UNCHANGED ts_vars

Next ==
  \/ WriteTo
  \/ WriteBody
  \/ UpdateWriteCompressedBodySize
  \/ Corrupt
  \/ ParseFrom

Spec == Init /\ [][Next]_vars

TsSpec == TsInit /\ [][TsNext]_vars

\* ------------------------------------------------------------------------
\* Properties of the chunk metadata (checked under Spec).
\* ------------------------------------------------------------------------

\* The number type of the prefix table that the flags select.
TableType == IF flags.delta_encoding_order = 0 THEN "u16" ELSE SignedOf("u16")

RangeOf(T, p) == num_to_unsigned(T, p.upper) - num_to_unsigned(T, p.lower)

\* A parse of what write_to wrote, nothing damaged in between.
RoundTripped == phase = "parsed" /\ ~corrupted

\* The invariants of a metadata and its match with the flags: the variant
\* and the number of delta moments are those of delta_encoding_order, and
\* every row has lower <= upper in the unsigned domain and a gcd of at
\* least 1 that divides its range.
WellFormed(m, f) ==
  LET T == IF f.delta_encoding_order = 0 THEN "u16" ELSE SignedOf("u16")
      rows == m.prefix_metadata.prefixes
  IN  /\ m.prefix_metadata.kind
           = (IF f.delta_encoding_order = 0 THEN "Simple" ELSE "Delta")
      /\ Len(m.prefix_metadata.delta_moments) = f.delta_encoding_order
      /\ \A i \in 1..Len(rows) :
           /\ num_to_unsigned(T, rows[i].lower)
                <= num_to_unsigned(T, rows[i].upper)
           /\ rows[i].gcd >= 1
           /\ RangeOf(T, rows[i]) % rows[i].gcd = 0

\* The path of the GCDs of m under f.
GcdPath(m, f) ==
  IF ~f.use_gcds THEN "none"
  ELSE IF common_gcd_for_chunk_meta(m.prefix_metadata.prefixes).some
  THEN "common"
  ELSE "per row"

\* On the per-row path a row of one value (upper = lower) that holds a gcd
\* other than 1 has no bits for it: its range of 0 encodes in 0 bits.
HasUnwritableGcd(m, f) ==
  /\ GcdPath(m, f) = "per row"
  /\ \E i \in 1..Len(m.prefix_metadata.prefixes) :
       LET p == m.prefix_metadata.prefixes[i]
       IN  p.upper = p.lower /\ p.gcd # 1

\* The rows of m with the GCDs the bitstream carries for them: 1 without
\* use_gcds, the chunk-wide common GCD when one is declared, and else each
\* row's own.
WithStoredGcds(m, f) ==
  LET rows == m.prefix_metadata.prefixes
      common == common_gcd_for_chunk_meta(rows)
  IN  [m EXCEPT !.prefix_metadata.prefixes =
         [i \in 1..Len(rows) |->
            [rows[i] EXCEPT !.gcd =
               IF GcdPath(m, f) = "none" THEN 1
               ELSE IF GcdPath(m, f) = "common" THEN common.val
               ELSE @]]]

C2_BackPatch ==
  /\ phase = "patched" =>
       /\ writer.bits
            = write_to(meta, BitWriter(HeaderBits), flags).bits \o BodySample
       /\ Len(writer.bits) = Len(before_patch)
       /\ \A i \in 1..Len(writer.bits) :
            (i <= bit_idx + BITS_TO_ENCODE_N_ENTRIES
             \/ i > bit_idx + BITS_TO_ENCODE_N_ENTRIES
                      + BITS_TO_ENCODE_COMPRESSED_BODY_SIZE)
              => writer.bits[i] = before_patch[i]
       /\ bits_usize(SubSeq(writer.bits,
                            bit_idx + BITS_TO_ENCODE_N_ENTRIES + 1,
                            bit_idx + BITS_TO_ENCODE_N_ENTRIES
                              + BITS_TO_ENCODE_COMPRESSED_BODY_SIZE))
            = meta.compressed_body_size
  /\ (phase = "parsed" /\ before_patch # <<>>) =>
       /\ parsed.ok
       /\ parsed.val.compressed_body_size = meta.compressed_body_size

\* C2, a case: a table of rows written with the placeholder, patched to
\* 123456 and parsed again.
C2_Witness ==
  /\ phase = "parsed"
  /\ before_patch # <<>>
  /\ before_patch # writer.bits
  /\ meta.compressed_body_size = 123456
  /\ Len(meta.prefix_metadata.prefixes) = 2
  /\ parsed.ok

\* C3, as claimed: every row of a metadata that parse_from returns has a
\* gcd of at least 1 that divides to_unsigned(upper) - to_unsigned(lower),
\* whatever the bitstream.
C3_GcdLegality ==
  (phase = "parsed" /\ parsed.ok) =>
    \A i \in 1..Len(parsed.val.prefix_metadata.prefixes) :
      LET p == parsed.val.prefix_metadata.prefixes[i]
      IN  p.gcd >= 1 /\ RangeOf(TableType, p) % p.gcd = 0

IsBoundsError(result) ==
  /\ ~result.ok
  /\ result.err = "Corruption"
  /\ Len(result.msg) = 4
  /\ result.msg[1] = "prefix lower bound"

\* C4: every row of a metadata that parse_from returns has
\* to_unsigned(lower) <= to_unsigned(upper); and the Corruption error about
\* the bounds names a lower bound above the upper bound, which are the two
\* values read last: the reader stands right behind upper.
C4_InconsistentBounds ==
  phase = "parsed" =>
    /\ parsed.ok =>
         \A i \in 1..Len(parsed.val.prefix_metadata.prefixes) :
           LET p == parsed.val.prefix_metadata.prefixes[i]
           IN  num_to_unsigned(TableType, p.lower)
                 <= num_to_unsigned(TableType, p.upper)
    /\ IsBoundsError(parsed) =>
         LET lower == parsed.msg[2]
             upper == parsed.msg[4]
             pos == parsed.r.pos
         IN  /\ parsed.msg[3] = "may not be greater than upper bound"
             /\ num_to_unsigned(TableType, lower)
                  > num_to_unsigned(TableType, upper)
             /\ pos >= bit_idx + 2 * PHYSICAL_BITS
             /\ bits_usize(SubSeq(writer.bits, pos - 2 * PHYSICAL_BITS + 1,
                                  pos - PHYSICAL_BITS))
                  = (lower + 65536) % 65536
             /\ bits_usize(SubSeq(writer.bits, pos - PHYSICAL_BITS + 1, pos))
                  = (upper + 65536) % 65536

\* C4, a case: a Delta table (over the signed type) whose second row has
\* its bounds inverted.
C4_Witness ==
  /\ phase = "parsed"
  /\ IsBoundsError(parsed)
  /\ flags.delta_encoding_order = 1
  /\ parsed.msg[2] < 0
  /\ parsed.r.pos > bit_idx + 150

\* C5: write_to leaves the writer at a byte boundary, having added to the
\* fields nothing but zero bits, fewer than eight.
C5_ByteAlignment ==
  (phase = "written" /\ ~corrupted) =>
    LET fields == write_fields(meta, BitWriter(HeaderBits), flags).bits
    IN  /\ bit_idx % 8 = 0
        /\ bit_position(writer) % 8 = 0
        /\ Len(writer.bits) - Len(fields) \in 0..7
        /\ SubSeq(writer.bits, 1, Len(fields)) = fields
        /\ \A i \in (Len(fields) + 1)..Len(writer.bits) : writer.bits[i] = 0

\* C5, a case: fields that end within a byte, padded by 7 bits.
C5_Witness ==
  /\ phase = "written"
  /\ ~corrupted
  /\ Len(meta.prefix_metadata.prefixes) = 2
  /\ Len(write_fields(meta, BitWriter(HeaderBits), flags).bits) % 8 = 1
  /\ bit_position(writer) % 8 = 0

\* ------------------------------------------------------------------------
\* Properties of the timestamps (checked under TsSpec).
\* ------------------------------------------------------------------------

\* The bounds as the specification gives them: parts_per_sec * i64::MIN
\* and parts_per_sec * (i64::MAX + 1) - 1, that is -+ parts_per_sec * 2^63.
Lowest(pps) == IMk(TRUE, NMul(NOf(pps), HalfRange(8).mag))
Highest(pps) == ISub(IMk(FALSE, NMul(NOf(pps), HalfRange(8).mag)), IOf(1))
InBounds(pps, x) == IGe(x, Lowest(pps)) /\ ILe(x, Highest(pps))

TS_PHYSICAL_BITS == 96

\* C6: for a timestamp within [MIN, MAX], to_bytes gives PHYSICAL_BITS / 8
\* bytes that hold parts - MIN in big-endian, and from_bytes of them gives
\* the timestamp back.
C6_ByteRoundTrip ==
  (/\ torig.kind = "ts"
   /\ InBounds(tpps, torig.v)
   /\ Len(ttrace) \in 1..2
   /\ ttrace[1] = "to_bytes") =>
    /\ Len(ttrace) = 1 =>
         /\ tcur.kind = "bytes"
         /\ Len(tcur.v.bytes) = TS_PHYSICAL_BITS \div 8
         /\ from_be_bytes(tcur.v.bytes) = ISub(torig.v, Lowest(tpps))
    /\ (Len(ttrace) = 2 /\ ttrace[2] = "from_bytes") =>
         tcur = [kind |-> "ts", v |-> torig.v]

\* C6, a case: MAX of TimestampMicros through to_bytes and from_bytes.
C6_Witness ==
  /\ ttrace = <<"to_bytes", "from_bytes">>
  /\ tpps = MicrosPartsPerSec
  /\ torig.kind = "ts"
  /\ torig.v = Highest(tpps)
  /\ tcur.kind = "ts"

\* C7: to_unsigned keeps the order of two timestamps (num_cmp, the order
\* of their parts) and num_eq, and from_unsigned undoes it, over all of
\* i128.
C7_OrderPreservingBijection ==
  /\ ttrace = <<"compare">> =>
       /\ ILe(tcur.v.unsigned_self, tcur.v.unsigned_other)
            <=> (tcur.v.num_cmp <= 0)
       /\ (tcur.v.num_cmp <= 0) <=> ILe(tcur.v.self, tcur.v.other)
       /\ (tcur.v.unsigned_self = tcur.v.unsigned_other) <=> tcur.v.num_eq
       /\ tcur.v.num_eq <=> (tcur.v.num_cmp = 0)
  /\ (torig.kind = "ts" /\ ttrace = <<"to_unsigned">>) =>
       /\ ~tcur.v.neg
       /\ ILe(tcur.v, U128_MAX)
  /\ (torig.kind = "ts" /\ ttrace = <<"to_unsigned", "from_unsigned">>) =>
       tcur = torig

\* C7, a case: the least i128 compared with a timestamp above zero.
C7_Witness ==
  /\ ttrace = <<"compare">>
  /\ tcur.v.self = I128_MIN
  /\ ~tcur.v.other.neg
  /\ tcur.v.num_cmp = -1

\* C8: new gives InvalidArgument outside [MIN, MAX] and the timestamp
\* within; from_bytes of any 12 bytes gives a timestamp within [MIN, MAX]
\* or InvalidArgument.
C8_RangeCheck ==
  /\ (torig.kind = "parts" /\ ttrace = <<"new">>) =>
       IF InBounds(tpps, torig.v)
       THEN tcur = [kind |-> "ts", v |-> torig.v]
       ELSE tcur = Err("InvalidArgument")
  /\ (torig.kind = "bytes" /\ ttrace = <<"from_bytes">>) =>
       \/ tcur.kind = "ts" /\ InBounds(tpps, tcur.v)
       \/ tcur = Err("InvalidArgument")

\* C8, a case: new of MIN - 1.
C8_Witness ==
  /\ ttrace = <<"new">>
  /\ torig.v = ISub(Lowest(tpps), IOf(1))
  /\ tcur = Err("InvalidArgument")

\* C9: for a timestamp within [MIN, MAX], seconds is the floor of
\* parts / parts_per_sec, subsec_nanos is the rest in nanoseconds, below
\* 10^9, and from_secs_and_nanos gives the timestamp back;
\* TimestampNanos::from_secs_and_nanos(-1, 500_000_000) is -500_000_000
\* parts.
C9_EuclideanSecsNanos ==
  /\ (/\ torig.kind = "ts"
      /\ InBounds(tpps, torig.v)
      /\ Len(ttrace) \in 1..2
      /\ ttrace[1] = "to_secs_and_nanos") =>
       /\ Len(ttrace) = 1 =>
            LET whole == IMul(tcur.v.seconds, IOf(tpps))
            IN  /\ ILe(whole, torig.v)
                /\ ILt(torig.v, IAdd(whole, IOf(tpps)))
                /\ ~OverflowsS(tcur.v.seconds, 8)
                /\ ~tcur.v.subsec_nanos.neg
                /\ ILt(tcur.v.subsec_nanos, IOf(1000000000))
                /\ tcur.v.subsec_nanos
                     = IMul(ISub(torig.v, whole),
                            IOf(1000000000 \div tpps))
       /\ (Len(ttrace) = 2 /\ ttrace[2] = "from_secs_and_nanos") =>
            tcur = torig
  /\ (/\ tpps = NanosPartsPerSec
      /\ ttrace = <<"from_secs_and_nanos">>
      /\ torig.v.seconds = IOf(-1)
      /\ torig.v.subsec_nanos = IOf(500000000)) =>
       tcur = [kind |-> "ts", v |-> IOf(-500000000)]

\* C9, a case: one part before the half second before the epoch, in
\* microseconds, to seconds and nanoseconds and back.
C9_Witness ==
  /\ ttrace = <<"to_secs_and_nanos", "from_secs_and_nanos">>
  /\ tpps = MicrosPartsPerSec
  /\ torig.v = IOf(-500000001)
  /\ tcur = torig

\* C10, as claimed: a SystemTime converted to a timestamp of either type
\* and back is the same SystemTime, and the two types agree on the whole
\* seconds of it.
C10_SystemTimeRoundTrip ==
  /\ (torig.kind = "system_time"
      /\ ttrace = <<"from_system_time", "into_system_time">>) =>
       tcur = torig
  /\ (torig.kind = "system_time" /\ ttrace = <<"from_system_time">>) =>
       /\ tcur.kind = "ts"
       /\ \A other \in {NanosPartsPerSec, MicrosPartsPerSec} :
            LET t == from_system_time(other, torig.v, overflow_checks)
            IN  /\ t.kind = "ok"
                /\ to_secs_and_nanos(other, t.v).seconds
                     = to_secs_and_nanos(tpps, tcur.v).seconds

====
